---------------------------- MODULE Spec2Model ----------------------------
(***************************************************************************)
(* A model of quicktile/util.py (Python 2): clamp_idx, fmt_table and the   *)
(* EnumSafeDict container.                                                 *)
(*                                                                         *)
(* Strings are sequences of one-character strings, so that len(), ljust(), *)
(* slicing and ''.join() are computed and not assumed.  A Python 2 dict is *)
(* a sequence of entries kept in insertion order; looking a key up uses    *)
(* the key's own == (what the dict's hashing does), and ITERATING a dict   *)
(* may yield its entries in any order, since the order of a Python 2 dict  *)
(* is the order of its hash table and not the order of insertion.          *)
(***************************************************************************)
EXTENDS Integers, Sequences, FiniteSets, TLC

VARIABLES
    contents,   \* EnumSafeDict._contents: dict type -> (dict key -> value)
    last,       \* the last EnumSafeDict operation, its arguments and outcome
    idx,        \* clamp_idx: argument idx
    stop,       \* clamp_idx: argument stop
    wrap,       \* clamp_idx: argument wrap
    clamped,    \* clamp_idx: what the call returned (<<>> before the call)
    rows,       \* fmt_table: argument rows
    headers,    \* fmt_table: argument headers
    group_by,   \* fmt_table: argument group_by, <<>> for None, <<i>> for i
    table       \* fmt_table: how the call ended (status "new" before it)

dictVars  == <<contents, last>>
clampVars == <<idx, stop, wrap, clamped>>
tableVars == <<rows, headers, group_by, table>>
vars      == <<contents, last, idx, stop, wrap, clamped,
               rows, headers, group_by, table>>

(***************************************************************************)
(* Bounds of the model.                                                    *)
(***************************************************************************)
MaxKeyVal == 1      \* the largest number a key carries
MaxIdx    == 7      \* clamp_idx: idx ranges over -MaxIdx..MaxIdx
MaxStop   == 4      \* clamp_idx: stop ranges over -MaxStop..MaxStop
MaxCols   == 2      \* fmt_table: headers and rows hold up to MaxCols cells
MaxRows   == 2      \* fmt_table: rows holds up to MaxRows rows

Min(a, b) == IF a < b THEN a ELSE b
Max(a, b) == IF a > b THEN a ELSE b

\* All the orders in which the elements of the finite set S can be listed.
Orderings(S) ==
    {f \in [1..Cardinality(S) -> S] :
        \A i, j \in 1..Cardinality(S) : f[i] = f[j] => i = j}

\* The sequence s without its i-th element.
RemoveAt(s, i) == SubSeq(s, 1, i - 1) \o SubSeq(s, i + 1, Len(s))

(***************************************************************************)
(* clamp_idx                                                               *)
(***************************************************************************)

\* Python's a % b: the remainder has the sign of the divisor b; b = 0 raises.
PyMod(a, b) ==
    IF b > 0 THEN a - b * (a \div b)
    ELSE 0 - (((0 - a)) - (0 - b) * ((0 - a) \div (0 - b)))

\* A remainder that takes the sign of the dividend, as C's % does.
clamp_idx_truncating(i, n, w) ==
    IF w
    THEN IF n = 0 THEN "ZeroDivisionError"
         ELSE IF i >= 0 THEN PyMod(i, n) ELSE 0 - PyMod(0 - i, n)
    ELSE Max(Min(i, n - 1), 0)

clamp_idx(i, n, w) ==
    IF w
    THEN IF n = 0 THEN "ZeroDivisionError" ELSE PyMod(i, n)
    ELSE Max(Min(i, n - 1), 0)

InitClamp ==
    /\ idx \in (0 - MaxIdx)..MaxIdx
    /\ stop \in (0 - MaxStop)..MaxStop
    /\ wrap \in BOOLEAN
    /\ clamped = <<>>
    /\ contents = <<>>
    /\ last = [op |-> "init"]
    /\ rows = <<>>
    /\ headers = <<>>
    /\ group_by = <<>>
    /\ table = [status |-> "new"]

CallClampIdx ==
    /\ clamped = <<>>
    /\ clamped' = <<clamp_idx(idx, stop, wrap)>>
    /\ UNCHANGED <<idx, stop, wrap, dictVars, tableVars>>

NextClamp == CallClampIdx

SpecClamp == InitClamp /\ [][NextClamp]_vars

\* C9: for every stop > 0 and every idx, clamp_idx returns a value of
\* [0, stop): with wrap the one congruent to idx modulo stop, without wrap idx
\* saturated to [0, stop-1]; an idx already in range is returned unchanged.
ClampInRange ==
    (clamped # <<>> /\ stop > 0) =>
        LET r == clamped[1] IN
        /\ r \in 0..(stop - 1)
        /\ wrap => \E q \in (0 - MaxIdx - 1)..(MaxIdx + 1) : idx = q * stop + r
        /\ ~wrap => /\ idx < 0 => r = 0
                    /\ idx >= stop => r = stop - 1
        /\ idx \in 0..(stop - 1) => r = idx

\* A negative idx was wrapped and an idx past the end was saturated.
ClampWitness ==
    /\ clamped # <<>>
    /\ stop = 3
    /\ \/ (wrap /\ idx = 0 - 4 /\ clamped[1] = 2)
       \/ (~wrap /\ idx = 5 /\ clamped[1] = 2)

(***************************************************************************)
(* EnumSafeDict                                                            *)
(***************************************************************************)

\* The runtime types of the keys: two enum types whose members compare equal
\* (with a GLib warning) when they carry the same number.  EnumA has the
\* members 0..MaxKeyVal and EnumB one member fewer.
Types == {"EnumA", "EnumB"}
Keys ==
    {k \in [type : Types, val : 0..MaxKeyVal] :
        k.type = "EnumB" => k.val < MaxKeyVal}
Values == {"v1", "v2"}

\* key == other for two keys: the naive equality a plain dict would use.
NaiveEq(k1, k2) == k1.val = k2.val

\* A key "type" that tells no two keys apart.
ktype_untyped(key) == "EnumA"

\* type(key)
ktype(key) == key.type

\* A plain dict d (entries [key, value] in insertion order): the position of
\* the entry whose key equals k, 0 when there is none.
dict_find(d, k) ==
    IF \E i \in 1..Len(d) : NaiveEq(d[i].key, k)
    THEN CHOOSE i \in 1..Len(d) : NaiveEq(d[i].key, k)
    ELSE 0

\* d[k] = v with the entry never overwritten once it is there.
dict_setitem_keep(d, k, v) ==
    IF dict_find(d, k) # 0 THEN d ELSE Append(d, [key |-> k, value |-> v])

\* d[k] = v: an entry that is there keeps its key and its place.
dict_setitem(d, k, v) ==
    IF dict_find(d, k) # 0
    THEN [d EXCEPT ![dict_find(d, k)].value = v]
    ELSE Append(d, [key |-> k, value |-> v])

\* The outer dict c (entries [ktype, section]): the position of type t.
section_find(c, t) ==
    IF \E i \in 1..Len(c) : c[i].ktype = t
    THEN CHOOSE i \in 1..Len(c) : c[i].ktype = t
    ELSE 0

\* EnumSafeDict.__contains__
contains(c, key) ==
    /\ section_find(c, ktype(key)) # 0
    /\ dict_find(c[section_find(c, ktype(key))].section, key) # 0

\* self._contents[type(key)][key], for a key that is there
lookup(c, key) ==
    LET section == c[section_find(c, ktype(key))].section
    IN  section[dict_find(section, key)].value

\* __getitem__ answering a key that is not there with a default value.
getitem_default(c, key) ==
    IF contains(c, key)
    THEN [exc |-> "None", ret |-> lookup(c, key)]
    ELSE [exc |-> "None", ret |-> "v1"]

\* EnumSafeDict.__getitem__
getitem(c, key) ==
    IF contains(c, key)
    THEN [exc |-> "None", ret |-> lookup(c, key)]
    ELSE [exc |-> "KeyError", ret |-> "None"]

\* EnumSafeDict.__setitem__: self._contents.setdefault(ktype, {})[key] = value
setitem(c, key, value) ==
    LET withSection ==
            IF section_find(c, ktype(key)) # 0 THEN c
            ELSE Append(c, [ktype |-> ktype(key), section |-> <<>>])
        i == section_find(withSection, ktype(key))
    IN  [withSection EXCEPT
            ![i].section = dict_setitem(withSection[i].section, key, value)]

\* __delitem__ without the removal of a section that became empty.
delitem_keep_section(c, key) ==
    IF contains(c, key)
    THEN LET i == section_find(c, ktype(key))
             section == RemoveAt(c[i].section, dict_find(c[i].section, key))
         IN  [exc |-> "None", contents |-> [c EXCEPT ![i].section = section]]
    ELSE [exc |-> "KeyError", contents |-> c]

\* EnumSafeDict.__delitem__
delitem(c, key) ==
    IF contains(c, key)
    THEN LET i == section_find(c, ktype(key))
             section == RemoveAt(c[i].section, dict_find(c[i].section, key))
         IN  [exc |-> "None",
              contents |-> IF section = <<>>
                           THEN RemoveAt(c, i)
                           ELSE [c EXCEPT ![i].section = section]]
    ELSE [exc |-> "KeyError", contents |-> c]

\* EnumSafeDict.__len__
len(c) == Len(c)

\* The keys of the sections so, each section's keys in the order ko[.] of it.
RECURSIVE chain_keys(_, _, _)
chain_keys(c, so, ko) ==
    IF so = <<>> THEN <<>>
    ELSE LET i == Head(so)
         IN  [n \in 1..Len(c[i].section) |-> c[i].section[ko[i][n]].key]
             \o chain_keys(c, Tail(so), ko)

\* The orders in which the keys of each section of c can come.
KeyOrders(c) ==
    {ko \in [1..Len(c) -> UNION {Orderings(1..n) : n \in 0..(MaxKeyVal + 1)}] :
        \A i \in 1..Len(c) : Len(ko[i]) = Len(c[i].section)}

\* An iteration that ends after the first section.
iter_first_section(c) ==
    {chain_keys(c, IF so = <<>> THEN so ELSE <<so[1]>>, ko) :
        so \in Orderings(1..Len(c)), ko \in KeyOrders(c)}

\* EnumSafeDict.__iter__: every way the two nested loops can run.  values()
\* of the outer dict and keys() of each section come in the dicts' own order.
iter(c) ==
    {chain_keys(c, so, ko) : so \in Orderings(1..Len(c)), ko \in KeyOrders(c)}

\* The keys in the order of insertion: of the types first, of the keys then.
InsertionOrder(c) ==
    chain_keys(c, [i \in 1..Len(c) |-> i],
               [i \in 1..Len(c) |-> [n \in 1..Len(c[i].section) |-> n]])

\* The keys the map holds.
StoredKeys(c) ==
    UNION {{c[i].section[n].key : n \in 1..Len(c[i].section)} : i \in 1..Len(c)}

Init ==
    /\ contents = <<>>
    /\ last = [op |-> "init"]
    /\ idx = 0
    /\ stop = 1
    /\ wrap = TRUE
    /\ clamped = <<>>
    /\ rows = <<>>
    /\ headers = <<>>
    /\ group_by = <<>>
    /\ table = [status |-> "new"]

SetItem(key, value) ==
    /\ contents' = setitem(contents, key, value)
    /\ last' = [op |-> "set", key |-> key, value |-> value,
                exc |-> "None", ret |-> "None",
                present |-> contains(contents, key)]
    /\ UNCHANGED <<clampVars, tableVars>>

DelItem(key) ==
    /\ contents' = delitem(contents, key).contents
    /\ last' = [op |-> "del", key |-> key, value |-> "None",
                exc |-> delitem(contents, key).exc, ret |-> "None",
                present |-> contains(contents, key)]
    /\ UNCHANGED <<clampVars, tableVars>>

GetItem(key) ==
    /\ last' = [op |-> "get", key |-> key, value |-> "None",
                exc |-> getitem(contents, key).exc,
                ret |-> getitem(contents, key).ret,
                present |-> contains(contents, key)]
    /\ UNCHANGED <<contents, clampVars, tableVars>>

ContainsKey(key) ==
    /\ last' = [op |-> "contains", key |-> key, value |-> "None",
                exc |-> "None", ret |-> contains(contents, key),
                present |-> contains(contents, key)]
    /\ UNCHANGED <<contents, clampVars, tableVars>>

LenOf ==
    /\ last' = [op |-> "len", key |-> "None", value |-> "None",
                exc |-> "None", ret |-> len(contents), present |-> FALSE]
    /\ UNCHANGED <<contents, clampVars, tableVars>>

\* EnumSafeDict.keys: list(self)
KeysOf ==
    /\ \E ks \in iter(contents) :
          last' = [op |-> "keys", key |-> "None", value |-> "None",
                   exc |-> "None", ret |-> ks, present |-> FALSE]
    /\ UNCHANGED <<contents, clampVars, tableVars>>

Next ==
    \/ \E key \in Keys, value \in Values : SetItem(key, value)
    \/ \E key \in Keys : DelItem(key)
    \/ \E key \in Keys : GetItem(key)
    \/ \E key \in Keys : ContainsKey(key)
    \/ LenOf
    \/ KeysOf

Spec == Init /\ [][Next]_vars

\* The runtime types of the keys the map holds.
StoredTypes(c) == {k.type : k \in StoredKeys(c)}

\* C1: after any sequence of set and delete operations, failed deletes
\* included, no partition of _contents is empty; so len() is the number of
\* distinct runtime types among the stored keys, and it is 0 again once the
\* only key was deleted.
NoEmptyPartition ==
    /\ \A i \in 1..Len(contents) : contents[i].section # <<>>
    /\ len(contents) = Cardinality(StoredTypes(contents))
    /\ last.op = "len" => last.ret = Cardinality(StoredTypes(contents))
    /\ StoredKeys(contents) = {} => len(contents) = 0

\* A delete took the last key of the map away, and so its partition.
PartitionCollected ==
    /\ last.op = "del"
    /\ last.exc = "None"
    /\ contents = <<>>

\* C2: right after set(key, value), contains(key) is true and get(key)
\* returns value, for a key that was absent and for one that was present.
SetThenGet ==
    last.op = "set" =>
        /\ contains(contents, last.key)
        /\ getitem(contents, last.key) = [exc |-> "None", ret |-> last.value]

\* A set overwrote the other value of a key that was present.
Overwritten ==
    /\ last.op = "set"
    /\ last.present
    /\ last.value = "v2"
    /\ \E k \in Keys : k # last.key /\ contains(contents, k)
                       /\ lookup(contents, k) = "v1"

\* What C3 says of one step: a set or delete on a key leaves contains() and
\* get() of every key of another runtime type as they were, and the second of
\* two sets on naively equal keys of different types leaves both values.
IsolatedStep ==
    /\ \A k2 \in Keys :
          (last'.op \in {"set", "del"} /\ last'.key.type # k2.type) =>
              /\ contains(contents', k2) = contains(contents, k2)
              /\ getitem(contents', k2) = getitem(contents, k2)
    /\ (/\ last.op = "set"
        /\ last'.op = "set"
        /\ last.key.type # last'.key.type
        /\ NaiveEq(last.key, last'.key)) =>
              /\ getitem(contents', last.key).ret = last.value
              /\ getitem(contents', last'.key).ret = last'.value

\* C3: keys of different runtime types that compare equal under naive
\* equality are stored independently.
TypeIsolation == [][IsolatedStep]_vars

\* Two naively equal keys of different types hold different values.
EqualKeysApart ==
    /\ last.op = "set"
    /\ \E k1, k2 \in Keys :
          /\ k1.type # k2.type
          /\ NaiveEq(k1, k2)
          /\ contains(contents, k1) /\ contains(contents, k2)
          /\ lookup(contents, k1) # lookup(contents, k2)

\* What C4 says of one step: get and delete of a key that is not contained
\* raise KeyError and change nothing.
AbsentKeyStep ==
    (last'.op \in {"get", "del"} /\ last'.key \notin StoredKeys(contents)) =>
        /\ last'.exc = "KeyError"
        /\ contents' = contents
        /\ len(contents') = len(contents)

\* C4: get(key) and delete(key) on a key that is not contained fail with
\* KeyError and leave the whole map unchanged.
AbsentKeyRaises == [][AbsentKeyStep]_vars

\* A delete failed on a key whose partition exists without it, while a key
\* of the other type that compares equal to it is stored.
AbsentKeyRaised ==
    /\ last.op = "del"
    /\ last.exc = "KeyError"
    /\ section_find(contents, last.key.type) # 0
    /\ \E k \in StoredKeys(contents) :
          k.type # last.key.type /\ NaiveEq(k, last.key)

\* C5 as claimed: keys() lists the partitions in the order in which their
\* types were first inserted and each partition's keys in insertion order.
KeysInInsertionOrder ==
    last.op = "keys" => last.ret = InsertionOrder(contents)

\* C5 as amended: keys() lists every stored key exactly once, the keys of
\* one partition next to each other, in no particular order otherwise.
KeysEachOnce ==
    last.op = "keys" =>
        /\ Len(last.ret) = Cardinality(StoredKeys(contents))
        /\ {last.ret[i] : i \in 1..Len(last.ret)} = StoredKeys(contents)
        /\ \A i, j, k \in 1..Len(last.ret) :
              (i < j /\ j < k /\ last.ret[i].type = last.ret[k].type) =>
                  last.ret[j].type = last.ret[i].type

\* keys() listed three keys of two partitions in another order than that of
\* their insertion.
KeysListed ==
    /\ last.op = "keys"
    /\ Len(last.ret) >= 3
    /\ Cardinality(StoredTypes(contents)) = 2
    /\ last.ret # InsertionOrder(contents)

(***************************************************************************)
(* fmt_table                                                               *)
(***************************************************************************)

\* The labels of headers and cells: strings without blanks, dashes or line
\* ends.  rows is a sequence of rows here, never a dict (util.py line 66).
Labels == {<<>>, <<"a">>, <<"b">>, <<"a", "a", "a">>}

SeqsUpTo(S, n) == UNION {[1..k -> S] : k \in 0..n}

\* ord(c) of the characters in use.
Ord(c) ==
    CASE c = "\n" -> 10
      [] c = " "  -> 32
      [] c = "-"  -> 45
      [] c = "a"  -> 97
      [] c = "b"  -> 98

\* s < t for two Python 2 str: by the first character that differs.
RECURSIVE StrLess(_, _)
StrLess(s, t) ==
    IF t = <<>> THEN FALSE
    ELSE IF s = <<>> THEN TRUE
    ELSE IF Ord(Head(s)) # Ord(Head(t)) THEN Ord(Head(s)) < Ord(Head(t))
    ELSE StrLess(Tail(s), Tail(t))

\* sorted(S) for a set S of strings.
sorted(S) ==
    CHOOSE f \in Orderings(S) :
        \A i, j \in 1..Cardinality(S) : i < j => StrLess(f[i], f[j])

\* char * n
Repeat(char, n) == [i \in 1..Max(n, 0) |-> char]

\* label.ljust(width, pad)
ljust(label, width, pad) == label \o Repeat(pad, width - Len(label))

\* ''.join(parts)
RECURSIVE join(_)
join(parts) == IF parts = <<>> THEN <<>> ELSE Head(parts) \o join(Tail(parts))

\* sum(len(x) for x in parts)
RECURSIVE sum_len(_)
sum_len(parts) ==
    IF parts = <<>> THEN 0 ELSE Len(Head(parts)) + sum_len(Tail(parts))

\* The largest number of a non-empty set of numbers.
max(S) == CHOOSE m \in S : \A n \in S : n <= m

\* The place list.pop(i) takes from the list s, counted from 1: an index
\* below 0 counts from the end.  pop raises IndexError unless it is a place
\* of s.
pop_place(s, i) == IF i >= 0 THEN i + 1 ELSE Len(s) + i + 1
can_pop(s, i) == pop_place(s, i) \in 1..Len(s)

\* The list s after s.pop(i).
popped(s, i) == RemoveAt(s, pop_place(s, i))

\* The groups dict (entries [key, rows]) after the loop over the rows rs:
\* group = row.pop(group_by); groups.setdefault(group, []).append(row)
RECURSIVE build_groups(_, _, _)
build_groups(gs, rs, g) ==
    IF rs = <<>> THEN gs
    ELSE LET row == popped(Head(rs), g)
             group == Head(rs)[pop_place(Head(rs), g)]
             at == IF \E i \in 1..Len(gs) : gs[i].key = group
                   THEN CHOOSE i \in 1..Len(gs) : gs[i].key = group
                   ELSE 0
             next == IF at = 0
                     THEN Append(gs, [key |-> group, rows |-> <<row>>])
                     ELSE [gs EXCEPT ![at].rows = Append(@, row)]
         IN  build_groups(next, Tail(rs), g)

\* The lengths that column pos gets from the rows: len(x[pos]) for x in rows
\* if len(x) > pos, with pos counted from 1 here.
col_lens(rs, pos) == {Len(rs[n][pos]) : n \in {m \in 1..Len(rs) : Len(rs[m]) >= pos}}

\* Whether max() is given an empty sequence for some column: ValueError.
col_maxlens_raises(hs, rs) == \E pos \in 1..Len(hs) : col_lens(rs, pos) = {}

\* The list col_maxlens.
col_maxlens(hs, rs) ==
    [pos \in 1..Len(hs) |-> Max(max(col_lens(rs, pos)), Len(hs[pos]))]

\* The list result of fmt_row before its width is looked at: one string
\* '%s%s ' % (' ' * indent, label.ljust(width, pad)) for each pair of
\* zip(col_maxlens, row).
fmt_cells(widths, row, pad, indent) ==
    [p \in 1..Min(Len(widths), Len(row)) |->
        Repeat(" ", indent) \o ljust(row[p], widths[p], pad) \o <<" ">>]

\* Whether fmt_row raises IndexError: result[-1] of an empty result.
fmt_row_raises(widths, row, pad, indent, min_width) ==
    /\ sum_len(fmt_cells(widths, row, pad, indent)) < min_width
    /\ fmt_cells(widths, row, pad, indent) = <<>>

\* fmt_row, joined.
fmt_row(widths, row, pad, indent, min_width) ==
    LET result == fmt_cells(widths, row, pad, indent)
        width == sum_len(result)
        n == Len(result)
        widened ==
            IF width < min_width
            THEN Append([result EXCEPT ![n] = SubSeq(@, 1, Len(@) - 1)],
                        Repeat(pad, min_width - width + 1))
            ELSE result
    IN  join(Append(widened, <<"\n">>))

\* The rows of the group with the key group.
group_rows(gs, group) == gs[CHOOSE i \in 1..Len(gs) : gs[i].key = group].rows

\* The lines of the groups ks, in that order.
RECURSIVE fmt_groups(_, _, _)
fmt_groups(widths, gs, ks) ==
    IF ks = <<>> THEN <<>>
    ELSE LET group == Head(ks)
             rs == group_rows(gs, group)
         IN  (IF group # <<>> THEN <<"\n">> \o group \o <<"\n">> ELSE <<>>)
             \o join([n \in 1..Len(rs) |-> fmt_row(widths, rs[n], " ", 1, 0)])
             \o fmt_groups(widths, gs, Tail(ks))

\* fmt_table(rows, headers, group_by): the exception it raises, or "ok" and
\* the string it returns.
fmt_table(rs, hs, g) ==
    LET raised(exc) == [status |-> exc, output |-> <<>>] IN
    IF g # <<>> /\ ~can_pop(hs, g[1]) THEN raised("IndexError")
    ELSE IF g # <<>> /\ \E n \in 1..Len(rs) : ~can_pop(rs[n], g[1])
    THEN raised("IndexError")
    ELSE
    LET hs2 == IF g = <<>> THEN hs ELSE popped(hs, g[1])
        rs2 == IF g = <<>> THEN rs
               ELSE [n \in 1..Len(rs) |-> popped(rs[n], g[1])]
        groups == IF g = <<>> THEN << [key |-> <<>>, rows |-> rs] >>
                  ELSE build_groups(<<>>, rs, g[1])
    IN
    IF col_maxlens_raises(hs2, rs2) THEN raised("ValueError")
    ELSE IF groups = <<>> THEN raised("ValueError")
    ELSE
    LET widths == col_maxlens(hs2, rs2)
        group_width == max({Len(groups[i].key) : i \in 1..Len(groups)})
        divider == [p \in 1..Len(hs2) |-> <<>>]
    IN
    IF fmt_row_raises(widths, divider, "-", 0, group_width + 1)
    THEN raised("IndexError")
    ELSE [status |-> "ok",
          output |->
              fmt_row(widths, hs2, " ", 0, 0)
              \o fmt_row(widths, divider, "-", 0, group_width + 1)
              \o fmt_groups(widths, groups,
                            sorted({groups[i].key : i \in 1..Len(groups)}))]

InitTable ==
    /\ headers \in SeqsUpTo(Labels, MaxCols)
    /\ rows \in SeqsUpTo(SeqsUpTo(Labels, MaxCols), MaxRows)
    /\ group_by \in {<<>>} \cup {<<i>> : i \in (0 - MaxCols)..(MaxCols - 1)}
    /\ table = [status |-> "new"]
    /\ contents = <<>>
    /\ last = [op |-> "init"]
    /\ idx = 0
    /\ stop = 1
    /\ wrap = TRUE
    /\ clamped = <<>>

CallFmtTable ==
    /\ table.status = "new"
    /\ table' = fmt_table(rows, headers, group_by)
    /\ UNCHANGED <<rows, headers, group_by, dictVars, clampVars>>

NextTable == CallFmtTable

SpecTable == InitTable /\ [][NextTable]_vars

\* The lines of a text, each without the "\n" that ends it.
RECURSIVE Lines(_)
Lines(text) ==
    IF text = <<>> THEN <<>>
    ELSE IF \E i \in 1..Len(text) : text[i] = "\n"
    THEN LET i == CHOOSE j \in 1..Len(text) :
                      text[j] = "\n" /\ \A k \in 1..(j - 1) : text[k] # "\n"
         IN  <<SubSeq(text, 1, i - 1)>> \o Lines(SubSeq(text, i + 1, Len(text)))
    ELSE <<text>>

\* A line without its blanks.
NotBlank(c) == c # " "
Strip(line) == SelectSeq(line, NotBlank)

\* The width of column p as the specification defines it: the longest of
\* the header and of the cells that the rows rs have at p.
ClaimedWidth(hs, rs, p) ==
    max({Len(hs[p])} \cup col_lens(rs, p))

\* The header line and a data line as C6 describes them: one blank of indent
\* for the row, then each cell left-justified to its column and one blank.
ClaimedHeaderLine(hs, rs) ==
    join([p \in 1..Len(hs) |-> ljust(hs[p], ClaimedWidth(hs, rs, p), " ") \o <<" ">>])
ClaimedDataLine(hs, rs, row) ==
    <<" ">> \o
    join([p \in 1..Len(row) |-> ljust(row[p], ClaimedWidth(hs, rs, p), " ") \o <<" ">>])

\* C6: without group_by and with rows as long as headers, the output is the
\* header line, the divider line and one line per row in input order, each a
\* single blank of indent followed by the cells left-justified to the column
\* widths, so that the cells stand under the header labels.  (Stated for
\* tables with a header and a row at least.)
PlainTableAsClaimed ==
    (/\ table.status # "new"
     /\ group_by = <<>>
     /\ headers # <<>>
     /\ rows # <<>>
     /\ \A n \in 1..Len(rows) : Len(rows[n]) = Len(headers)) =>
        /\ table.status = "ok"
        /\ LET ls == Lines(table.output) IN
           /\ Len(ls) = 2 + Len(rows)
           /\ ls[1] = ClaimedHeaderLine(headers, rows)
           /\ \A n \in 1..Len(rows) :
                 ls[2 + n] = ClaimedDataLine(headers, rows, rows[n])

\* C7: with rows that have fewer cells than headers, fmt_table raises no
\* error, also when no row reaches some column or rows is empty, and every
\* row is rendered with its own cells.  (Stated for a call without group_by
\* and with a header at least.)
ShortRowsRendered ==
    (/\ table.status # "new"
     /\ group_by = <<>>
     /\ headers # <<>>
     /\ \A n \in 1..Len(rows) : Len(rows[n]) <= Len(headers)) =>
        /\ table.status = "ok"
        /\ LET ls == Lines(table.output) IN
           /\ Len(ls) = 2 + Len(rows)
           /\ \A n \in 1..Len(rows) : Strip(ls[2 + n]) = join(rows[n])

\* The group key of a row, and the rows of rs with the key k, each without
\* its group_by cell, in the order of rs.
GroupKey(row, g) == row[pop_place(row, g)]
RECURSIVE RowsOfGroup(_, _, _)
RowsOfGroup(rs, g, k) ==
    IF rs = <<>> THEN <<>>
    ELSE (IF GroupKey(Head(rs), g) = k THEN <<popped(Head(rs), g)>> ELSE <<>>)
         \o RowsOfGroup(Tail(rs), g, k)

\* The lines of the blocks of the groups ks, without blanks: a blank line and
\* the label before the rows of a key that is not empty.
RECURSIVE ClaimedBlocks(_, _, _)
ClaimedBlocks(rs, g, ks) ==
    IF ks = <<>> THEN <<>>
    ELSE LET mine == RowsOfGroup(rs, g, Head(ks)) IN
         (IF Head(ks) # <<>> THEN << <<>>, Head(ks) >> ELSE <<>>)
         \o [n \in 1..Len(mine) |-> join(mine[n])]
         \o ClaimedBlocks(rs, g, Tail(ks))

\* The lines of a grouped table without their blanks, the divider left out.
ClaimedGrouped(hs, rs, g) ==
    <<join(popped(hs, g))>>
    \o ClaimedBlocks(rs, g, sorted({GroupKey(rs[n], g) : n \in 1..Len(rs)}))

\* A call with a group_by that is an index of headers and of every row, no
\* row longer than headers.
GroupedCall ==
    /\ table.status # "new"
    /\ group_by # <<>>
    /\ can_pop(headers, group_by[1])
    /\ \A n \in 1..Len(rows) :
          can_pop(rows[n], group_by[1]) /\ Len(rows[n]) <= Len(headers)

\* The output is the header line without the group_by label, the divider,
\* and the blocks of the groups in ascending order of their keys, each row
\* once, in its own block, without its group_by cell, in input order.
GroupedOutputAsClaimed ==
    LET ls == Lines(table.output) IN
    /\ Len(ls) >= 2
    /\ [i \in 1..(Len(ls) - 1) |-> Strip(ls[IF i = 1 THEN 1 ELSE i + 1])]
         = ClaimedGrouped(headers, rows, group_by[1])

\* C8: with a valid group_by, grouping is a stable partition: every input
\* row is rendered exactly once, under the block of its own group key,
\* without its group_by cell and under a header line without the group_by
\* label; the blocks come in ascending order of the keys, the rows of a block
\* in input order.  (Stated for a row at least and rows as long as headers,
\* where no column is without a cell.)
GroupedAsClaimed ==
    (/\ GroupedCall
     /\ rows # <<>>
     /\ \A n \in 1..Len(rows) : Len(rows[n]) = Len(headers)) =>
        (table.status = "ok" /\ GroupedOutputAsClaimed)

\* The grouped calls that return a table return the one C8 describes: C8
\* fails where fmt_table raises, and nowhere else.
GroupedWhenReturned ==
    (GroupedCall /\ table.status = "ok") => GroupedOutputAsClaimed

\* The length of the longest group key of the call.
WidestLabel ==
    IF group_by = <<>> THEN 0
    ELSE max({Len(GroupKey(rows[n], group_by[1])) : n \in 1..Len(rows)})

\* C10: with a valid group_by or none, also when group_by removes the only
\* header column, a divider line of '-' follows the header line and is never
\* narrower than the widest group label.  (Stated for a header and a row at
\* least and rows as long as headers, where no column is without a cell.)
DividerCoversLabels ==
    (/\ table.status # "new"
     /\ headers # <<>>
     /\ rows # <<>>
     /\ \A n \in 1..Len(rows) : Len(rows[n]) = Len(headers)
     /\ group_by # <<>> => can_pop(headers, group_by[1])) =>
        /\ table.status = "ok"
        /\ LET ls == Lines(table.output) IN
           /\ Len(ls) >= 2
           /\ \A i \in 1..Len(ls[2]) : ls[2][i] \in {"-", " "}
           /\ Len(ls[2]) >= WidestLabel

\* The divider of the tables that are returned covers the widest label.
DividerWhenReturned ==
    (/\ table.status = "ok"
     /\ rows # <<>>
     /\ \A n \in 1..Len(rows) : Len(rows[n]) = Len(headers)) =>
        LET ls == Lines(table.output) IN
        /\ Len(ls) >= 2
        /\ Len(ls[2]) >= WidestLabel

=============================================================================
